---- MODULE Spec2Model ----
(***************************************************************************)
(* Model of the ocelot log service: the token store and authorization      *)
(* gate (app/api/deps.py), the log endpoints (app/api/v1/endpoints/logs.py)*)
(* the live-stream endpoint and fan-out hub (endpoints/stream.py,          *)
(* services/stream_service.py), the queue client and the ingestion worker  *)
(* (services/sqs_service.py, workers/sqs_consumer.py) and the search index *)
(* (services/opensearch_service.py).                                       *)
(***************************************************************************)
EXTENDS Integers, Sequences, FiniteSets, TLC

(* ------------------------------ bounds -------------------------------- *)
\* the clock runs over 0..MaxTime
MaxTime == 2
\* lifetime, in clock units, of an issued token
TokenTTL == 1
\* messages the queue accepts in one run
MaxMsgs == 1
\* records the durable store holds in one run
MaxLogs == 2
\* live-stream sockets opened in one run
MaxConns == 2
\* longest bulk-produce array
MaxBulk == 1
\* largest `days` of a retention delete
MaxDays == 1
\* texts one socket is sent by the hub in one run
MaxInbox == 1
\* records in the store of the reindex runs
MaxStored == 13
\* messages the queue takes in a run of bulk requests alone
MaxBatch == 3

(* ------------------------------ universe ------------------------------ *)
Tenants == {"A", "B"}
\* the closed role set of UserRole
Roles == {"admin", "writer", "reader"}
\* role strings a token record may carry ("user" is create_access_token's
\* default, "Reader" a differently-cased spelling)
RoleNames == Roles \cup {"user", "Reader"}
\* what a request may present as its bearer credential
Credentials == {"none", "garbage", "nojti", "foreign", "tok"}
\* X-Tenant-ID header values ("" is the empty header)
HeaderTenants == Tenants \cup {""}
\* credentials the REST requests of the model present
RequestCredentials == {"garbage", "tok"}
\* (tenant set, role set) pairs tokens are issued with
IssuedClaims ==
    { <<{"A"}, {"reader"}>>, <<{"B"}, {"writer"}>>,
      <<{"B"}, {"admin"}>>,  <<{"A", "B"}, {"reader", "writer"}>> }
\* message texts of a submitted log
Texts == {"m1", "m2"}
\* bodies of POST /logs: the declared field of LogCreate and a tenant_id the
\* client may have added to the JSON ("" is none)
ClientLogs == [message : Texts, tenant_id : HeaderTenants]
\* a body with nothing added
PlainLog == [message |-> "m1", tenant_id |-> ""]
\* (tenant set, role set) pairs an operator may store on a record later
StoredClaims == IssuedClaims \cup { <<{"B"}, {"reader"}>>, <<{"A"}, {"writer"}>> }

VARIABLES
    now,                \* datetime.utcnow()
    signed,             \* payload of the issued JWT (signed, immutable)
    jwt_tokens,         \* the jwt_tokens collection: set of token records
    os_up,              \* whether the OpenSearch cluster answers
    sqs,                \* the queue: set of messages, each visible or in flight
    next_msg,           \* next MessageId of the queue
    batch,              \* messages the worker received and has yet to process
    running,            \* the worker's `running` flag
    worker,             \* where LogConsumerWorker.run stands
    logs,               \* the logs collection of the durable store
    next_id,            \* next ObjectId of the durable store
    os_index,           \* documents of the search index, keyed by id
    audit_trail,        \* the audit_trail collection
    tenant_connections, \* ConnectionManager.tenant_connections
    connection_tenants, \* ConnectionManager.connection_tenants
    connection_counter, \* ConnectionManager.connection_counter
    sockets,            \* per WebSocket: its state and connection id
    inbox,              \* per WebSocket: the texts broadcast_to_tenant sent it
    sending,            \* the pass of broadcast_to_tenant suspended in a send
    last                \* the request handled by the last step, with its response

tokenVars == <<signed, jwt_tokens>>
queueVars == <<sqs, next_msg, batch, running, worker>>
storeVars == <<logs, next_id, os_index, audit_trail>>
hubVars   == <<tenant_connections, connection_tenants, connection_counter, sockets,
               inbox, sending>>
vars == <<now, signed, jwt_tokens, os_up, sqs, next_msg, batch, running, worker,
          logs, next_id, os_index, audit_trail, tenant_connections,
          connection_tenants, connection_counter, sockets, inbox, sending, last>>

NoRequest == [op |-> "none"]

\* no pass of broadcast_to_tenant is suspended
NoPass == [tenant |-> ""]

(* --------------------------- token decoding --------------------------- *)
\* a validly signed token that was never issued through this store
ForeignPayload ==
    [jti |-> "j0", tenant_ids |-> {"A"}, roles |-> {"reader"}, exp |-> MaxTime + TokenTTL]

\* a validly signed token that carries no jti claim
NoJtiPayload ==
    [jti |-> "", tenant_ids |-> {"A"}, roles |-> {"reader"}, exp |-> MaxTime + TokenTTL]

Payload(cred) ==
    CASE cred = "tok"     -> signed
      [] cred = "foreign" -> ForeignPayload
      [] OTHER            -> NoJtiPayload

\* jwt.decode: verifies the signature and the signed exp claim
DecodeFails(cred) ==
    \/ cred \in {"none", "garbage"}
    \/ Payload(cred).exp < now

\* jwt_collection.find_one({"jti": jti}): the set of at most one record
find_one(jti) == {r \in jwt_tokens : r.jti = jti}

Unauthorized(detail) == [ok |-> FALSE, status |-> 401, detail |-> detail]
Forbidden(detail)    == [ok |-> FALSE, status |-> 403, detail |-> detail]
Passed               == [ok |-> TRUE, status |-> 200, detail |-> ""]

(* --------------------------- validate_token --------------------------- *)
\* the check the body of validate_token makes, before its except clause
ValidateInner(cred) ==
    IF DecodeFails(cred) THEN Unauthorized("jwt error")
    ELSE IF Payload(cred).jti = "" THEN Unauthorized("Could not validate credentials")
    ELSE IF find_one(Payload(cred).jti) = {} THEN Unauthorized("Token not found in database")
    ELSE LET stored_token == CHOOSE r \in find_one(Payload(cred).jti) : TRUE
         IN IF stored_token.revoked THEN Unauthorized("Token has been revoked")
            ELSE IF stored_token.expires_at < now THEN Unauthorized("Token has expired")
            ELSE Passed

\* `except Exception` catches every HTTPException raised in the body and
\* raises credentials_exception in its place
validate_token(cred) ==
    IF ValidateInner(cred).ok THEN Passed
    ELSE Unauthorized("Could not validate credentials")

(* -------------------------- get_current_token ------------------------- *)
NoClaims == [tenant_ids |-> {}, roles |-> {}]

\* HTTPBearer(auto_error=True), decode, jti, record lookup; the claims come
\* from the stored record; neither revoked nor expires_at is read
get_current_token(cred) ==
    IF cred = "none" THEN Forbidden("Not authenticated") @@ [claims |-> NoClaims]
    ELSE IF DecodeFails(cred)
        THEN Unauthorized("Could not validate credentials") @@ [claims |-> NoClaims]
    ELSE IF Payload(cred).jti = ""
        THEN Unauthorized("Could not validate credentials") @@ [claims |-> NoClaims]
    ELSE IF find_one(Payload(cred).jti) = {}
        THEN Unauthorized("Token not found in database") @@ [claims |-> NoClaims]
    ELSE LET stored_token == CHOOSE r \in find_one(Payload(cred).jti) : TRUE
         IN Passed @@ [claims |-> [tenant_ids |-> stored_token.tenant_ids,
                                    roles |-> stored_token.roles]]

\* a header parse that reads the claims without verifying the token
get_token_from_header_unverified(cred) ==
    Passed @@ [claims |-> [tenant_ids |-> Payload(cred).tenant_ids,
                           roles |-> Payload(cred).roles]]

\* get_token_from_header of the stream endpoint: the claims of the signed
\* payload; the token store is not consulted
get_token_from_header(cred) ==
    IF DecodeFails(cred) THEN Unauthorized("closed") @@ [claims |-> NoClaims]
    ELSE Passed @@ [claims |-> [tenant_ids |-> Payload(cred).tenant_ids,
                                 roles |-> Payload(cred).roles]]

(* ------------------------------ the gate ------------------------------ *)
get_tenant_id(x_tenant_id) ==
    IF x_tenant_id = ""
    THEN [ok |-> FALSE, status |-> 400, detail |-> "X-Tenant-ID header is required"]
    ELSE Passed

check_tenant_access(tenant_id, token_data) ==
    IF token_data.tenant_ids = {} \/ tenant_id \notin token_data.tenant_ids
    THEN Forbidden("Token does not have access to tenant")
    ELSE Passed

\* a role check without the admin override: only a shared role passes
check_roles_without_admin_override(required_roles, user_roles) ==
    IF ~(\E user_role \in user_roles : user_role \in required_roles)
    THEN Forbidden("Insufficient permissions")
    ELSE Passed

\* _check_roles of check_role_permissions(required_roles); the detail is
\* the fixed prefix of the message, which goes on to list the roles
check_role_permissions(required_roles, user_roles) ==
    IF "admin" \in user_roles THEN Passed
    ELSE IF ~(\E user_role \in user_roles : user_role \in required_roles)
         THEN Forbidden("Insufficient permissions")
         ELSE Passed

require_admin  == {"admin"}
require_writer == {"admin", "writer"}
require_reader == {"admin", "writer", "reader"}

\* str.lower() on role strings
Lower(role) == IF role = "Reader" THEN "reader" ELSE role


(* ----------------------- the durable store (Mongo) -------------------- *)
Date(t)   == [type |-> "date", v |-> t]
IsoStr(t) == [type |-> "string", v |-> t]

\* datetime.isoformat() and datetime.fromisoformat()
isoformat(d)        == IsoStr(d.v)
fromisoformat(s)    == Date(s.v)

\* $lt / $gte / $lte of a filter: BSON compares values of one type only, a
\* date field never matches a string bound
MongoLt(field, bound)  == field.type = bound.type /\ field.v < bound.v
MongoGte(field, bound) == field.type = bound.type /\ field.v >= bound.v
MongoLte(field, bound) == field.type = bound.type /\ field.v <= bound.v

\* absent optional parameter
None == -1

\* a set of records or messages as a sequence, by ascending id: the order
\* in which they were inserted or sent
RECURSIVE InIdOrder(_)
InIdOrder(S) ==
    IF S = {} THEN <<>>
    ELSE LET m == CHOOSE x \in S : \A y \in S : x.id <= y.id
         IN <<m>> \o InIdOrder(S \ {m})

\* what a response shows of a stored record or an index document
View(id, tenant_id, t, message) ==
    [id |-> id, tenant_id |-> tenant_id, timestamp |-> t, message |-> message]

(* -------------------------- the search index -------------------------- *)
\* an index write that lets the index generate the document id instead of
\* taking the _id of the stored record
index_log_generated_id(index, log) ==
    index \cup {[id |-> log.id + MaxLogs, tenant_id |-> log.tenant_id,
                 timestamp |-> isoformat(log.timestamp).v, message |-> log.message]}

\* OpenSearchService.index_log: upsert by str(_id), timestamp as ISO text,
\* which the index maps to a date. For a log with neither "_id" nor "id"
\* (id None here) the lookup yields None and str(None) is the text "None",
\* the one document id of every such log, written None as well
index_log(index, log) ==
    {d \in index : d.id # log.id}
        \cup {[id |-> log.id, tenant_id |-> log.tenant_id,
               timestamp |-> isoformat(log.timestamp).v, message |-> log.message]}

\* LogQueryParams: the time range and the full-text search of a query, None
\* and "" standing for an absent one; skip and limit keep their defaults,
\* with which the first page holds every hit of the model's index
QueryParams == [start_time : {None, 1}, end_time : {None, 1}, search : {"", "m1"}]
NoFilter == [start_time |-> None, end_time |-> None, search |-> ""]

\* the clauses search_logs adds to the tenant term for the filters given
FilterClauses(d, query_params) ==
    /\ query_params.start_time # None
          => d.timestamp >= isoformat(Date(query_params.start_time)).v
    /\ query_params.end_time # None
          => d.timestamp <= isoformat(Date(query_params.end_time)).v
    /\ query_params.search # "" => d.message = query_params.search

\* a search whose must clauses are the filters alone
search_logs_without_tenant_term(index, tenant_id, query_params) ==
    LET hits == {d \in index : FilterClauses(d, query_params)}
    IN [data |-> {View(d.id, d.tenant_id, d.timestamp, d.message) : d \in hits},
        total |-> Cardinality(hits)]

\* OpenSearchService.search_logs: the tenant term is the first must clause,
\* the filters follow; total is the number of documents that match
search_logs(index, tenant_id, query_params) ==
    LET hits == {d \in index : d.tenant_id = tenant_id /\ FilterClauses(d, query_params)}
    IN [data |-> {View(d.id, d.tenant_id, d.timestamp, d.message) : d \in hits},
        total |-> Cardinality(hits)]

\* OpenSearchService.get_log_by_id: a hit of another tenant, a miss and any
\* exception all give None (the empty set)
get_log_by_id(index, log_id, tenant_id, call_ok) ==
    IF ~call_ok THEN {}
    ELSE {View(d.id, d.tenant_id, d.timestamp, d.message) :
             d \in {x \in index : x.id = log_id /\ x.tenant_id = tenant_id}}

\* a delete_by_query whose range is lte: the cutoff itself is deleted too
os_delete_old_logs_lte(index, tenant_id, cutoff_date) ==
    {d \in index : ~(d.tenant_id = tenant_id /\ d.timestamp <= isoformat(cutoff_date).v)}

\* OpenSearchService.delete_old_logs: delete_by_query on tenant and range lt
os_delete_old_logs(index, tenant_id, cutoff_date) ==
    {d \in index : ~(d.tenant_id = tenant_id /\ d.timestamp < isoformat(cutoff_date).v)}

(* ------------------------------ audit --------------------------------- *)
\* create_audit_log_task builds the coroutine function _record and returns
\* it; the background task that calls it discards the result, so nothing is
\* awaited and nothing is written
create_audit_log_task(trail, tenant_id, action) == trail

(* ------------------------- responses, dependencies -------------------- *)
\* a handled request and its response; `ran` tells whether the body of the
\* endpoint was entered, `claims` which claims the gate read
Response(op, cred, tenant, status, detail, data, claims) ==
    [op |-> op, cred |-> cred, tenant |-> tenant, status |-> status,
     detail |-> detail, data |-> data, claims |-> claims, ran |-> TRUE]

\* the response of a call that entered no endpoint body
WithoutBody(op, cred, tenant, status, detail, claims) ==
    [Response(op, cred, tenant, status, detail, {}, claims) EXCEPT !.ran = FALSE]

ServerError(detail) == [ok |-> FALSE, status |-> 500, detail |-> detail]

\* the dependencies of a logs endpoint, solved in the order of its signature:
\* the OpenSearch client (whose constructor calls the cluster), the logs
\* collection of delete_old_logs (which reads the tenant header), the token,
\* the tenant header, the role check
solve_dependencies(cred, tenant, required_roles, needs_opensearch, collection_first) ==
    LET tok == get_current_token(cred)
        hdr == get_tenant_id(tenant)
        chk == check_role_permissions(required_roles, tok.claims.roles)
    IN IF needs_opensearch /\ ~os_up
           THEN ServerError("Failed to initialize OpenSearch client") @@ [claims |-> NoClaims]
       ELSE IF collection_first /\ ~hdr.ok THEN hdr @@ [claims |-> NoClaims]
       ELSE IF ~tok.ok THEN tok
       ELSE IF ~hdr.ok THEN hdr @@ [claims |-> tok.claims]
       ELSE IF ~chk.ok THEN chk @@ [claims |-> tok.claims]
       ELSE Passed @@ [claims |-> tok.claims]

\* a request the dependencies reject: the endpoint body never runs
Reject(op, cred, tenant, dep) ==
    /\ last' = WithoutBody(op, cred, tenant, dep.status, dep.detail, dep.claims)
    /\ UNCHANGED <<now, tokenVars, os_up, queueVars, storeVars, hubVars>>


(* ------------------------------- Init --------------------------------- *)
\* create_access_token: the record stored for a token starts with the
\* claims and the expiry that were signed
Issue(claims) ==
    /\ signed = [jti |-> "j1", tenant_ids |-> claims[1], roles |-> claims[2],
                 exp |-> TokenTTL]
    /\ jwt_tokens = {[jti |-> "j1", tenant_ids |-> claims[1], roles |-> claims[2],
                      expires_at |-> TokenTTL, revoked |-> FALSE]}

EmptySystem ==
    /\ now = 0
    /\ os_up = TRUE
    /\ sqs = {}
    /\ next_msg = 1
    /\ batch = <<>>
    /\ running = TRUE
    /\ worker = "polling"
    /\ logs = {}
    /\ next_id = 1
    /\ os_index = {}
    /\ audit_trail = {}
    /\ tenant_connections = <<>>
    /\ connection_tenants = <<>>
    /\ connection_counter = 0
    /\ sockets = [w \in 1..MaxConns |-> [state |-> "new"]]
    /\ inbox = [w \in 1..MaxConns |-> <<>>]
    /\ sending = NoPass
    /\ last = NoRequest

\* one token, issued to a reader of tenant A; what its record holds later
\* is up to UpdateStoredClaims
Init ==
    /\ Issue(<<{"A"}, {"reader"}>>)
    /\ EmptySystem

\* one token, issued with any of the claims
InitStream ==
    /\ \E claims \in IssuedClaims : Issue(claims)
    /\ EmptySystem

(* ----------------------------- environment ---------------------------- *)
\* a step that is no request: no response is waiting to be returned
Internal == last = NoRequest /\ last' = NoRequest

\* the response of the handled request is returned to its client
Respond ==
    /\ last # NoRequest
    /\ last' = NoRequest
    /\ UNCHANGED <<now, tokenVars, os_up, queueVars, storeVars, hubVars>>

Tick ==
    /\ now < MaxTime
    /\ now' = now + 1
    /\ Internal
    /\ UNCHANGED <<tokenVars, os_up, queueVars, storeVars, hubVars>>

\* the revoked flag of a record is set; it is never cleared
RevokeToken ==
    /\ \E r \in jwt_tokens :
          /\ ~r.revoked
          /\ jwt_tokens' = (jwt_tokens \ {r}) \cup {[r EXCEPT !.revoked = TRUE]}
    /\ Internal
    /\ UNCHANGED <<now, signed, os_up, queueVars, storeVars, hubVars>>

\* the stored tenant and role sets of a record are edited, the token is not
\* reissued
UpdateStoredClaims ==
    /\ \E r \in jwt_tokens, claims \in StoredClaims :
          /\ <<r.tenant_ids, r.roles>> # claims
          /\ jwt_tokens' = (jwt_tokens \ {r})
                \cup {[r EXCEPT !.tenant_ids = claims[1], !.roles = claims[2]]}
    /\ Internal
    /\ UNCHANGED <<now, signed, os_up, queueVars, storeVars, hubVars>>

\* the stored expiry of a record is shortened
ShortenExpiry ==
    /\ \E r \in jwt_tokens, e \in 0..MaxTime :
          /\ e < r.expires_at
          /\ jwt_tokens' = (jwt_tokens \ {r}) \cup {[r EXCEPT !.expires_at = e]}
    /\ Internal
    /\ UNCHANGED <<now, signed, os_up, queueVars, storeVars, hubVars>>

\* the record is purged from the store
PurgeToken ==
    /\ jwt_tokens # {}
    /\ jwt_tokens' = {}
    /\ Internal
    /\ UNCHANGED <<now, signed, os_up, queueVars, storeVars, hubVars>>

\* the OpenSearch cluster goes away or comes back
OpenSearchFlip ==
    /\ os_up' = ~os_up
    /\ Internal
    /\ UNCHANGED <<now, tokenVars, queueVars, storeVars, hubVars>>

(* ---------------------------- logs endpoints -------------------------- *)
\* GET /logs: the search raises when call_ok is false, and the except
\* clause answers 500; the statements after it, which would query the
\* durable store, are never reached
get_logs(cred, tenant_id, query_params) ==
    /\ last = NoRequest
    /\ LET dep == solve_dependencies(cred, tenant_id, require_reader, TRUE, FALSE)
           results == search_logs(os_index, tenant_id, query_params)
       IN IF ~dep.ok THEN Reject("get_logs", cred, tenant_id, dep)
          ELSE \E call_ok \in BOOLEAN :
               /\ audit_trail' = create_audit_log_task(audit_trail, tenant_id, "get_logs")
               /\ last' = IF call_ok
                     THEN Response("get_logs", cred, tenant_id, 200, "",
                                   results.data, dep.claims)
                              @@ [query_params |-> query_params, total |-> results.total,
                                  index_error |-> FALSE]
                     ELSE Response("get_logs", cred, tenant_id, 500, "search failed",
                                   {}, dep.claims)
                              @@ [query_params |-> query_params, total |-> 0,
                                  index_error |-> TRUE]
               /\ UNCHANGED <<now, tokenVars, os_up, queueVars, logs, next_id, os_index, hubVars>>

\* ObjectId.is_valid: 0 stands for an ill-formed id
ObjectIdIsValid(log_id) == log_id # 0

\* GET /logs/{log_id}: get_log_by_id gives None for a miss, for a hit of
\* another tenant and for a call that raised (call_ok false), and the durable
\* store is asked
get_log(cred, tenant_id, log_id) ==
    /\ last = NoRequest
    /\ LET dep == solve_dependencies(cred, tenant_id, require_reader, TRUE, FALSE)
       IN IF ~dep.ok
          THEN /\ last' = WithoutBody("get_log", cred, tenant_id, dep.status, dep.detail,
                                      dep.claims) @@ [log_id |-> log_id]
               /\ UNCHANGED <<now, tokenVars, os_up, queueVars, storeVars, hubVars>>
          ELSE \E call_ok \in BOOLEAN :
               LET log == get_log_by_id(os_index, log_id, tenant_id, call_ok)
                   mongo_log == {View(l.id, l.tenant_id, l.timestamp.v, l.message) :
                                    l \in {x \in logs : x.id = log_id /\ x.tenant_id = tenant_id}}
               IN
               /\ audit_trail' = create_audit_log_task(audit_trail, tenant_id, "get_log")
               /\ last' =
                     (IF ~ObjectIdIsValid(log_id)
                         THEN Response("get_log", cred, tenant_id, 400, "Invalid log ID", {}, dep.claims)
                     ELSE IF log # {}
                         THEN Response("get_log", cred, tenant_id, 200, "", log, dep.claims)
                     ELSE IF mongo_log = {}
                         THEN Response("get_log", cred, tenant_id, 404, "Log not found", {}, dep.claims)
                     ELSE Response("get_log", cred, tenant_id, 200, "", mongo_log, dep.claims))
                     @@ [log_id |-> log_id]
               /\ UNCHANGED <<now, tokenVars, os_up, queueVars, logs, next_id, os_index, hubVars>>

\* log.dict(): the declared fields of LogCreate; pydantic ignores what else
\* the JSON body carried
LogDict(log) == [message |-> log.message]

\* a message that takes the tenant from the body when the body names one
MessageTrustingBody(id, tenant_id, log) ==
    [id |-> id, tenant_id |-> IF log.tenant_id # "" THEN log.tenant_id ELSE tenant_id,
     timestamp |-> isoformat(Date(now)), message |-> LogDict(log).message,
     state |-> "visible"]

\* the message produce_log builds from it: the timestamp is the time of the
\* call as ISO text, the tenant is the one of the request header
Message(id, tenant_id, log) ==
    [id |-> id, tenant_id |-> tenant_id, timestamp |-> isoformat(Date(now)),
     message |-> LogDict(log).message, state |-> "visible"]

\* a produce_log that catches the error of send_message and answers as if
\* the event had been queued
produce_reply_swallowing_error(sent, message_id) ==
    [status |-> 202, detail |-> "queued", message_ids |-> <<message_id>>]

\* what produce_log answers: the MessageId that send_message returned, or
\* the exception send_message raised again, which nothing catches
produce_reply(sent, message_id) ==
    IF sent
    THEN [status |-> 202, detail |-> "queued", message_ids |-> <<message_id>>]
    ELSE [status |-> 500, detail |-> "send failed", message_ids |-> <<>>]

\* POST /logs
produce_log(cred, tenant_id, log) ==
    /\ last = NoRequest
    /\ LET dep == solve_dependencies(cred, tenant_id, require_writer, FALSE, FALSE)
       IN IF ~dep.ok THEN Reject("produce_log", cred, tenant_id, dep)
          ELSE \E sent \in BOOLEAN :
               LET reply == produce_reply(sent, next_msg)
               IN /\ sent => next_msg <= MaxMsgs
                  /\ IF sent
                     THEN /\ sqs' = sqs \cup {Message(next_msg, tenant_id, log)}
                          /\ next_msg' = next_msg + 1
                     ELSE /\ UNCHANGED <<sqs, next_msg>>
                  /\ last' = Response("produce_log", cred, tenant_id, reply.status,
                                      reply.detail, {}, dep.claims)
                                @@ [log |-> log, message_ids |-> reply.message_ids]
                  /\ UNCHANGED <<now, tokenVars, os_up, batch, running, worker, storeVars,
                                 hubVars>>

\* a bulk loop that collects the error of a send and answers with the
\* identifiers it has got so far
bulk_send_reporting_partial(next, tenant_id, body, k) ==
    [sent |-> {Message(next + i - 1, tenant_id, body[i]) : i \in 1..k},
     reply |-> [status |-> 202, detail |-> "queued",
                message_ids |-> [i \in 1..k |-> next + i - 1], count |-> k]]

\* the loop of produce_logs_bulk over the logs of the body when the first k
\* sends succeed: the messages that reach the queue, and the answer, which
\* is the list of MessageIds after the last send or the exception of the
\* send that failed
bulk_send(next, tenant_id, body, k) ==
    [sent |-> {Message(next + i - 1, tenant_id, body[i]) : i \in 1..k},
     reply |-> IF k = Len(body)
               THEN [status |-> 202, detail |-> "queued",
                     message_ids |-> [i \in 1..k |-> next + i - 1], count |-> k]
               ELSE [status |-> 500, detail |-> "send failed",
                     message_ids |-> <<>>, count |-> 0]]

\* POST /logs/bulk with n logs of one body, of which the first k are sent
produce_logs_bulk(cred, tenant_id, n, log) ==
    /\ last = NoRequest
    /\ LET dep == solve_dependencies(cred, tenant_id, require_writer, FALSE, FALSE)
       IN IF ~dep.ok THEN Reject("produce_logs_bulk", cred, tenant_id, dep)
          ELSE \E k \in 0..n :
               LET loop == bulk_send(next_msg, tenant_id, [i \in 1..n |-> log], k)
               IN /\ next_msg + k - 1 <= MaxMsgs
                  /\ sqs' = sqs \cup loop.sent
                  /\ next_msg' = next_msg + k
                  /\ last' = Response("produce_logs_bulk", cred, tenant_id,
                                      loop.reply.status, loop.reply.detail, {}, dep.claims)
                                @@ [log |-> log, n |-> n,
                                    message_ids |-> loop.reply.message_ids,
                                    count |-> loop.reply.count]
                  /\ UNCHANGED <<now, tokenVars, os_up, batch, running, worker, storeVars,
                                 hubVars>>

\* the body of produce_logs_bulk for a request its dependencies let through,
\* with logs that differ; `sent` notes how many sends succeeded
produce_logs_bulk_body(tenant_id, body) ==
    /\ last = NoRequest
    /\ next_msg + Len(body) - 1 <= MaxBatch
    /\ \E k \in 0..Len(body) :
          LET loop == bulk_send(next_msg, tenant_id, body, k)
          IN /\ sqs' = sqs \cup loop.sent
             /\ next_msg' = next_msg + k
             /\ last' = [op |-> "produce_logs_bulk_body", tenant |-> tenant_id,
                         body |-> body, sent |-> k, status |-> loop.reply.status,
                         detail |-> loop.reply.detail,
                         message_ids |-> loop.reply.message_ids,
                         count |-> loop.reply.count]
    /\ UNCHANGED <<now, tokenVars, os_up, batch, running, worker, storeVars, hubVars>>

\* the filter bulk_index_logs gives the durable store
IndexQuery(l, tenant_id, start_time, end_time) ==
    /\ l.tenant_id = tenant_id
    /\ start_time # None => MongoGte(l.timestamp, Date(start_time))
    /\ end_time # None => MongoLte(l.timestamp, Date(end_time))

\* default of the `limit` query parameter of bulk_index_logs
DefaultLimit == 100
\* how many of the errors the report of bulk_index_logs lists
ErrorDetailsShown == 10

\* find(query).limit(limit): the first `limit` matches in insertion order
Page(found, limit) ==
    {l \in found : Cardinality({x \in found : x.id < l.id}) < limit}

\* errors[:10]
FirstErrors(errors) ==
    SubSeq(errors, 1, IF Len(errors) < ErrorDetailsShown THEN Len(errors)
                      ELSE ErrorDetailsShown)

\* a reindex whose loop has no try: the first index_log that raises ends it,
\* and the report counts that one error
reindex_outcome_stop_at_first_error(page, raises) ==
    LET failing == {l \in page : l.id \in raises}
        before == {l \in page : \A f \in failing : l.id < f.id}
    IN [indexed |-> before,
        errors |-> IF failing = {} THEN <<>> ELSE <<Head(InIdOrder(failing)).id>>]

\* the loop of bulk_index_logs over the page: index_log raises for the logs
\* whose id is in `raises`, each of which adds its id to the errors, in the
\* order of the page; the others are indexed
reindex_outcome(page, raises) ==
    LET failing == {l \in page : l.id \in raises}
        ordered == InIdOrder(failing)
    IN [indexed |-> page \ failing,
        errors |-> [k \in 1..Len(ordered) |-> ordered[k].id]]

\* POST /logs/index/bulk
bulk_index_logs(cred, tenant_id, start_time, end_time, limit, raises) ==
    /\ last = NoRequest
    /\ LET dep == solve_dependencies(cred, tenant_id, require_admin, TRUE, FALSE)
           found == Page({l \in logs : IndexQuery(l, tenant_id, start_time, end_time)},
                         limit)
           outcome == reindex_outcome(found, raises)
           upsert[S \in SUBSET outcome.indexed] ==
               IF S = {} THEN os_index
               ELSE LET l == CHOOSE x \in S : TRUE
                    IN index_log(upsert[S \ {l}], l)
       IN IF ~dep.ok THEN Reject("bulk_index_logs", cred, tenant_id, dep)
          ELSE /\ os_index' = upsert[outcome.indexed]
               /\ last' = Response("bulk_index_logs", cred, tenant_id, 200,
                                   IF found = {} THEN "No logs found to index"
                                   ELSE "Bulk indexing completed",
                                   {}, dep.claims)
                           @@ [total |-> Cardinality(found),
                               indexed |-> Cardinality(outcome.indexed),
                               errors |-> Len(outcome.errors),
                               error_details |-> FirstErrors(outcome.errors),
                               limit |-> limit,
                               raised_for |-> {l.id : l \in found} \cap raises]
               /\ UNCHANGED <<now, tokenVars, os_up, queueVars, logs, next_id, audit_trail, hubVars>>

\* the filter delete_old_logs gives the durable store: the cutoff is passed
\* as ISO text
DeleteQuery(l, tenant_id, cutoff_date) ==
    /\ l.tenant_id = tenant_id
    /\ MongoLt(l.timestamp, isoformat(cutoff_date))

\* DELETE /logs?days=: delete_many stands outside the try, so when it raises
\* (mongo_ok false) the handler is left with the index untouched; the index
\* delete stands inside it, and when that raises (call_ok false) the error
\* text goes into the response
delete_old_logs(cred, tenant_id, days) ==
    /\ last = NoRequest
    /\ LET dep == solve_dependencies(cred, tenant_id, require_writer, TRUE, TRUE)
           cutoff_date == Date(now - days)
           deleted == {l \in logs : DeleteQuery(l, tenant_id, cutoff_date)}
           os_kept == os_delete_old_logs(os_index, tenant_id, cutoff_date)
       IN IF ~dep.ok THEN Reject("delete_old_logs", cred, tenant_id, dep)
          ELSE \E mongo_ok \in BOOLEAN, call_ok \in BOOLEAN :
               /\ IF ~mongo_ok
                  THEN /\ UNCHANGED <<logs, os_index>>
                       /\ last' = Response("delete_old_logs", cred, tenant_id, 500,
                                           "Internal Server Error", {}, dep.claims)
                                   @@ [days |-> days, mongo_error |-> TRUE,
                                       deleted_count |-> 0, opensearch_deleted |-> 0,
                                       opensearch_error |-> FALSE]
                  ELSE /\ logs' = logs \ deleted
                       /\ os_index' = IF call_ok THEN os_kept ELSE os_index
                       /\ last' = Response("delete_old_logs", cred, tenant_id, 200,
                                           IF call_ok THEN "" ELSE "opensearch_error",
                                           {}, dep.claims)
                                   @@ [days |-> days, mongo_error |-> FALSE,
                                       deleted_count |-> Cardinality(deleted),
                                       opensearch_deleted |->
                                           IF call_ok THEN Cardinality(os_index \ os_kept)
                                           ELSE 0,
                                       opensearch_error |-> ~call_ok]
               /\ UNCHANGED <<now, tokenVars, os_up, queueVars, next_id, audit_trail, hubVars>>


(* ------------------------------ the worker ---------------------------- *)
\* one pass of the loop of LogConsumerWorker.run up to the for loop:
\* receive_messages returns some of the visible messages, which the queue
\* hides from other receivers
Receive ==
    /\ running
    /\ worker = "polling"
    /\ batch = <<>>
    /\ \E got \in (SUBSET {m \in sqs : m.state = "visible"}) \ {{}} :
          /\ sqs' = (sqs \ got) \cup {[m EXCEPT !.state = "inflight"] : m \in got}
          /\ batch' = InIdOrder({[m EXCEPT !.state = "inflight"] : m \in got})
    /\ Internal
    /\ UNCHANGED <<now, tokenVars, os_up, next_msg, running, worker, storeVars, hubVars>>

\* ids of the messages that were deleted from the queue
Acked == {i \in 1..(next_msg - 1) : \A m \in sqs : m.id # i}

\* the document process_message inserts: the body of the message with the
\* timestamp text parsed; `src` notes the MessageId it was written from
Document(id, message) ==
    [id |-> id, tenant_id |-> message.tenant_id,
     timestamp |-> fromisoformat(message.timestamp),
     message |-> message.message, src |-> message.id]

\* a write keyed by the message: a second write of one message replaces
\* the first
replace_one_by_src(collection, document) ==
    {d \in collection : d.src # document.src} \cup {document}

\* logs_collection.insert_one(document)
insert_one(collection, document) == collection \cup {document}

\* a worker that deletes the message before it inserts
process_outcomes_delete_first(message) ==
    {o \in [inserted : BOOLEAN, deleted : BOOLEAN] :
        o.inserted => message.tenant_id # ""}

\* a worker that deletes the message in a finally clause, whether or not
\* the insert went through
process_outcomes_delete_in_finally(message) ==
    {o \in [inserted : BOOLEAN, deleted : {TRUE}] :
        o.inserted => message.tenant_id # ""}

\* a worker that deletes a message without tenant_id instead of leaving it
process_outcomes_drop_invalid(message) ==
    IF message.tenant_id = ""
    THEN {[inserted |-> FALSE, deleted |-> TRUE]}
    ELSE {o \in [inserted : BOOLEAN, deleted : BOOLEAN] : o.deleted => o.inserted}

\* how one call of process_message may go: a message without tenant_id is
\* left alone; the insert may raise, which skips the delete; the delete
\* that follows a good insert may raise too
process_outcomes(message) ==
    {o \in [inserted : BOOLEAN, deleted : BOOLEAN] :
        /\ o.inserted => message.tenant_id # ""
        /\ o.deleted => o.inserted}

\* the store has room for the insert, and an insert whose delete fails
\* leaves room for a record of each message yet to be acknowledged
Room(o) ==
    /\ o.inserted => next_id <= MaxLogs
    /\ (o.inserted /\ ~o.deleted) => next_id + (MaxMsgs - Cardinality(Acked)) <= MaxLogs

\* LogConsumerWorker.process_message on the next message of the batch; it
\* returns True only when insert and delete both went through
process_message ==
    /\ last = NoRequest
    /\ batch # <<>>
    /\ LET message == Head(batch)
       IN \E o \in process_outcomes(message) :
             /\ Room(o)
             /\ IF o.inserted
                THEN /\ logs' = insert_one(logs, Document(next_id, message))
                     /\ next_id' = next_id + 1
                ELSE UNCHANGED <<logs, next_id>>
             /\ sqs' = IF o.deleted THEN sqs \ {message} ELSE sqs
             /\ last' = [op |-> "process_message", message |-> message,
                         inserted |-> o.inserted, ok |-> o.deleted]
    /\ batch' = Tail(batch)
    /\ UNCHANGED <<now, tokenVars, os_up, next_msg, running, worker, os_index, audit_trail,
                   hubVars>>

\* the worker process is killed and started again: the messages it held
\* stay in flight until their visibility timeout
Crash ==
    /\ batch # <<>>
    /\ batch' = <<>>
    /\ Internal
    /\ UNCHANGED <<now, tokenVars, os_up, sqs, next_msg, running, worker, storeVars,
                   hubVars>>

\* a sender other than the produce endpoints puts a body without tenant_id
\* on the queue
ForeignSend(text) ==
    /\ next_msg <= MaxMsgs
    /\ sqs' = sqs \cup {[id |-> next_msg, tenant_id |-> "",
                         timestamp |-> isoformat(Date(now)), message |-> text,
                         state |-> "visible"]}
    /\ next_msg' = next_msg + 1
    /\ Internal
    /\ UNCHANGED <<now, tokenVars, os_up, batch, running, worker, storeVars, hubVars>>

\* the visibility timeout of a message that was received and not deleted
\* runs out: the queue delivers it again
VisibilityTimeout ==
    /\ \E m \in sqs :
          /\ m.state = "inflight"
          /\ \A i \in 1..Len(batch) : batch[i] # m
          /\ sqs' = (sqs \ {m}) \cup {[m EXCEPT !.state = "visible"]}
    /\ Internal
    /\ UNCHANGED <<now, tokenVars, os_up, next_msg, batch, running, worker, storeVars,
                   hubVars>>

\* signal_handler
Shutdown ==
    /\ running
    /\ running' = FALSE
    /\ Internal
    /\ UNCHANGED <<now, tokenVars, os_up, sqs, next_msg, batch, worker, storeVars, hubVars>>

\* a loop without the try: an exception of receive_messages leaves run
loop_exception_fatal == "exited"

\* the except clause of the loop of run: the error is logged and the worker
\* sleeps before the next pass
loop_exception == "backoff"

\* receive_messages raises at the head of a pass of the loop
receive_raises ==
    /\ running
    /\ worker = "polling"
    /\ batch = <<>>
    /\ worker' = loop_exception
    /\ Internal
    /\ UNCHANGED <<now, tokenVars, os_up, sqs, next_msg, batch, running, storeVars, hubVars>>

\* time.sleep(5) of the except clause returns: back to the loop condition
backoff_ends ==
    /\ worker = "backoff"
    /\ worker' = "polling"
    /\ Internal
    /\ UNCHANGED <<now, tokenVars, os_up, sqs, next_msg, batch, running, storeVars, hubVars>>

\* the loop condition is read with the flag cleared: run leaves the loop
\* and calls close_mongo_connection, so an exited worker has closed its
\* connection to the store
run_exits ==
    /\ ~running
    /\ worker = "polling"
    /\ batch = <<>>
    /\ worker' = "exited"
    /\ Internal
    /\ UNCHANGED <<now, tokenVars, os_up, sqs, next_msg, batch, running, storeVars, hubVars>>

(* ---------------------------- the fan-out hub ------------------------- *)
\* dict operations on a function
Put(d, k, v) == [x \in (DOMAIN d) \cup {k} |-> IF x = k THEN v ELSE d[x]]
Del(d, k)    == [x \in (DOMAIN d) \ {k} |-> d[x]]

\* a disconnect that forgets the subscription id and leaves the socket in
\* its tenant's set
disconnect_keeping_socket(tc, ct, websocket, connection_id) ==
    IF connection_id \in DOMAIN ct
    THEN [tc |-> tc, ct |-> Del(ct, connection_id)]
    ELSE [tc |-> tc, ct |-> ct]

\* ConnectionManager.disconnect(websocket, connection_id) on the two maps
disconnect(tc, ct, websocket, connection_id) ==
    IF connection_id \in DOMAIN ct
    THEN LET tenant_id == ct[connection_id]
             without == IF tenant_id \in DOMAIN tc
                        THEN Put(tc, tenant_id, tc[tenant_id] \ {websocket})
                        ELSE tc
         IN [tc |-> IF tenant_id \in DOMAIN without /\ without[tenant_id] = {}
                    THEN Del(without, tenant_id) ELSE without,
             ct |-> Del(ct, connection_id)]
    ELSE [tc |-> tc, ct |-> ct]

\* websocket_endpoint up to the receive loop: the header checks, then
\* ConnectionManager.connect and the welcome message
websocket_endpoint(w, cred, tenant_id) ==
    /\ last = NoRequest
    /\ sockets[w].state = "new"
    /\ LET token_data == get_token_from_header(cred)
           roles == {Lower(role) : role \in token_data.claims.roles}
           closed(claims) ==
               /\ last' = WithoutBody("stream", cred, tenant_id, 1008, "policy violation",
                                    claims)
               /\ sockets' = [sockets EXCEPT ![w] = [state |-> "closed"]]
               /\ UNCHANGED <<tenant_connections, connection_tenants, connection_counter>>
       IN IF tenant_id = "" THEN closed(NoClaims)
          ELSE IF cred = "none" \/ ~token_data.ok THEN closed(NoClaims)
          ELSE IF token_data.claims.tenant_ids = {}
                  \/ tenant_id \notin token_data.claims.tenant_ids
              THEN closed(token_data.claims)
          ELSE IF ~(\E role \in roles : role \in {"admin", "reader"})
              THEN closed(token_data.claims)
          ELSE \E welcomed \in BOOLEAN :
               LET connection_id == <<tenant_id, connection_counter>>
                   tc == Put(tenant_connections, tenant_id,
                             (IF tenant_id \in DOMAIN tenant_connections
                              THEN tenant_connections[tenant_id] ELSE {}) \cup {w})
                   ct == Put(connection_tenants, connection_id, tenant_id)
                   gone == disconnect(tc, ct, w, connection_id)
               IN /\ connection_counter' = connection_counter + 1
                  /\ tenant_connections' = IF welcomed THEN tc ELSE gone.tc
                  /\ connection_tenants' = IF welcomed THEN ct ELSE gone.ct
                  /\ sockets' = [sockets EXCEPT ![w] =
                        IF welcomed
                        THEN [state |-> "open", connection_id |-> connection_id]
                        ELSE [state |-> "closed"]]
                  /\ last' = Response("stream", cred, tenant_id,
                                      IF welcomed THEN 101 ELSE 1011,
                                      IF welcomed THEN "connection_established"
                                      ELSE "internal error",
                                      {}, token_data.claims)
    /\ UNCHANGED <<now, tokenVars, os_up, queueVars, storeVars, inbox, sending>>

\* the client of an open socket goes away: WebSocketDisconnect in the
\* receive loop
client_disconnect(w) ==
    /\ sockets[w].state = "open"
    /\ LET gone == disconnect(tenant_connections, connection_tenants, w,
                              sockets[w].connection_id)
       IN /\ tenant_connections' = gone.tc
          /\ connection_tenants' = gone.ct
    /\ sockets' = [sockets EXCEPT ![w] = [state |-> "closed"]]
    /\ Internal
    /\ UNCHANGED <<now, tokenVars, os_up, queueVars, storeVars, connection_counter, inbox,
                   sending>>

\* the orders in which a for loop may go through a set
Orders(S) ==
    {order \in [1..Cardinality(S) -> S] :
        \A i, j \in 1..Cardinality(S) : order[i] = order[j] => i = j}

\* what send_text may do on a socket: go through, raise RuntimeError (the
\* socket was closed), or raise something else (the peer went away, the
\* transport broke)
SendOutcomes == {"sent", "RuntimeError", "Exception"}

\* ConnectionManager.broadcast_to_tenant(tenant_id, log_data): the loop goes
\* through a copy of the tenant's set in `order`; a socket whose send raises
\* RuntimeError is noted and taken out of the set after the loop; any other
\* exception is not caught: it ends the loop where it is and leaves the
\* function before the cleanup
broadcast_to_tenant(tc, box, tenant_id, log_data, order, outcome) ==
    IF tenant_id \notin DOMAIN tc THEN [tc |-> tc, inbox |-> box, raised |-> FALSE]
    ELSE LET connections == tc[tenant_id]
             uncaught == {k \in 1..Len(order) : outcome[order[k]] = "Exception"}
             stop == IF uncaught = {} THEN Len(order) + 1
                     ELSE CHOOSE k \in uncaught : \A j \in uncaught : k <= j
             tried == {order[k] : k \in 1..(stop - 1)}
             disconnected == {w \in tried : outcome[w] = "RuntimeError"}
         IN [tc |-> IF uncaught = {}
                    THEN Put(tc, tenant_id, connections \ disconnected)
                    ELSE tc,
             inbox |-> [w \in DOMAIN box |->
                          IF w \in tried \ disconnected
                          THEN Append(box[w], log_data) ELSE box[w]],
             raised |-> uncaught # {}]

\* broadcast_log(tenant_id, log_data), which no endpoint and no worker
\* calls: one pass of broadcast_to_tenant, run as a task
broadcast_log(tenant_id, log_data) ==
    /\ last = NoRequest
    /\ \A w \in 1..MaxConns : Len(inbox[w]) < MaxInbox
    /\ LET connections == IF tenant_id \in DOMAIN tenant_connections
                          THEN tenant_connections[tenant_id] ELSE {}
       IN \E order \in Orders(connections), outcome \in [connections -> SendOutcomes] :
             LET pass == broadcast_to_tenant(tenant_connections, inbox, tenant_id,
                                             log_data, order, outcome)
             IN /\ tenant_connections' = pass.tc
                /\ inbox' = pass.inbox
                /\ last' = [op |-> "broadcast_log", tenant |-> tenant_id,
                            log_data |-> log_data, outcome |-> outcome,
                            raised |-> pass.raised]
    /\ UNCHANGED <<now, tokenVars, os_up, queueVars, storeVars, connection_tenants,
                   connection_counter, sockets, sending>>

\* what a finished pass of broadcast_to_tenant reports: the set it copied,
\* the sockets it noted as disconnected and the exception that left it
PassReport(pass, disconnected, error) ==
    [op |-> "broadcast_to_tenant", tenant |-> pass.tenant, log_data |-> pass.log_data,
     connections |-> pass.connections, disconnected |-> disconnected,
     raised |-> error # "", error |-> error]

\* the cleanup loop of broadcast_to_tenant, which has no await: the tenant's
\* set is looked up again for each socket noted as disconnected, and the
\* lookup raises KeyError when the tenant's entry is gone
cleanup(tc, tenant_id, disconnected) ==
    IF disconnected = {} THEN [tc |-> tc, error |-> ""]
    ELSE IF tenant_id \notin DOMAIN tc THEN [tc |-> tc, error |-> "KeyError"]
    ELSE [tc |-> Put(tc, tenant_id, tc[tenant_id] \ disconnected), error |-> ""]

\* broadcast_to_tenant(tenant_id, message) up to its first await: it returns
\* when the tenant has no entry, otherwise it copies the tenant's set and
\* is suspended in the send to the first socket of the copy
broadcast_begin(tenant_id, log_data) ==
    /\ last = NoRequest
    /\ sending = NoPass
    /\ LET connections == IF tenant_id \in DOMAIN tenant_connections
                          THEN tenant_connections[tenant_id] ELSE {}
           pass == [tenant |-> tenant_id, log_data |-> log_data,
                    connections |-> connections]
       IN IF connections = {}
          THEN /\ last' = PassReport(pass, {}, "")
               /\ UNCHANGED sending
          ELSE /\ \E order \in Orders(connections) :
                     sending' = pass @@ [todo |-> order, disconnected |-> {}]
               /\ UNCHANGED last
    /\ UNCHANGED <<now, tokenVars, os_up, queueVars, storeVars, tenant_connections,
                   connection_tenants, connection_counter, sockets, inbox>>

\* the send the pass is suspended in returns or raises; the pass goes on to
\* the next socket of its copy, or runs the cleanup and returns after the
\* last one, or is left by an exception other than RuntimeError
send_text_returns ==
    /\ sending # NoPass
    /\ \E outcome \in SendOutcomes :
          LET websocket == Head(sending.todo)
              disconnected == sending.disconnected \cup
                              (IF outcome = "RuntimeError" THEN {websocket} ELSE {})
              cleaned == cleanup(tenant_connections, sending.tenant, disconnected)
          IN /\ outcome = "sent" => Len(inbox[websocket]) < MaxInbox
             /\ inbox' = IF outcome = "sent"
                         THEN [inbox EXCEPT ![websocket] = Append(@, sending.log_data)]
                         ELSE inbox
             /\ IF outcome = "Exception"
                THEN /\ last = NoRequest
                     /\ last' = PassReport(sending, disconnected, "Exception")
                     /\ sending' = NoPass
                     /\ UNCHANGED tenant_connections
                ELSE IF Tail(sending.todo) = <<>>
                THEN /\ last = NoRequest
                     /\ last' = PassReport(sending, disconnected, cleaned.error)
                     /\ sending' = NoPass
                     /\ tenant_connections' = cleaned.tc
                ELSE /\ sending' = [sending EXCEPT !.todo = Tail(@),
                                                   !.disconnected = disconnected]
                     /\ UNCHANGED <<last, tenant_connections>>
    /\ UNCHANGED <<now, tokenVars, os_up, queueVars, storeVars, connection_tenants,
                   connection_counter, sockets>>

(* ------------------------------ the system ---------------------------- *)
Next ==
    \/ Tick
    \/ RevokeToken
    \/ UpdateStoredClaims
    \/ ShortenExpiry
    \/ PurgeToken
    \/ OpenSearchFlip
    \/ \E cred \in RequestCredentials, tenant_id \in HeaderTenants :
          get_logs(cred, tenant_id, NoFilter)
    \/ \E cred \in RequestCredentials, tenant_id \in HeaderTenants, log_id \in 0..MaxLogs :
          get_log(cred, tenant_id, log_id)
    \/ \E cred \in RequestCredentials, tenant_id \in HeaderTenants :
          produce_log(cred, tenant_id, PlainLog)
    \/ \E cred \in RequestCredentials, tenant_id \in HeaderTenants, n \in 1..MaxBulk :
          produce_logs_bulk(cred, tenant_id, n, PlainLog)
    \/ \E cred \in RequestCredentials, tenant_id \in HeaderTenants,
          start_time \in {None, 1}, end_time \in {None, 1},
          raises \in SUBSET {l.id : l \in logs} :
          bulk_index_logs(cred, tenant_id, start_time, end_time, DefaultLimit, raises)
    \/ \E cred \in RequestCredentials, tenant_id \in HeaderTenants, days \in 1..MaxDays :
          delete_old_logs(cred, tenant_id, days)
    \/ Respond
    \/ Receive
    \/ process_message
    \/ VisibilityTimeout
    \/ Shutdown

\* the serving process and the worker, with one issued token
Spec == Init /\ [][Next]_vars

(* ------------------------ the ingestion pipeline ---------------------- *)
\* one token that may write and read for both tenants
InitPipeline ==
    /\ Issue(<<{"A", "B"}, {"reader", "writer"}>>)
    /\ EmptySystem

NextPipeline ==
    \/ \E tenant_id \in HeaderTenants, log \in ClientLogs :
          produce_log("tok", tenant_id, log)
    \/ \E tenant_id \in HeaderTenants, n \in 1..MaxBulk, log \in ClientLogs :
          produce_logs_bulk("tok", tenant_id, n, log)
    \/ \E text \in Texts : ForeignSend(text)
    \/ Receive
    \/ process_message
    \/ VisibilityTimeout
    \/ Crash
    \/ Shutdown
    \/ \E tenant_id \in HeaderTenants : get_logs("tok", tenant_id, NoFilter)
    \/ \E tenant_id \in HeaderTenants, log_id \in 0..MaxLogs : get_log("tok", tenant_id, log_id)
    \/ Respond

\* produce, queue, worker and the reads; no reindex and no retention call
SpecPipeline == InitPipeline /\ [][NextPipeline]_vars

\* a call of process_message in which the insert or the delete of a message
\* with a tenant_id raises
ProcessFailed == process_message /\ Head(batch).tenant_id # "" /\ ~last'.ok

\* a poll that returns message i
ReceiveOf(i) == Receive /\ \E k \in 1..Len(batch') : batch'[k].id = i

\* the visibility timeout of message i runs out
TimeoutOf(i) ==
    /\ VisibilityTimeout
    /\ \E m \in sqs : m.id = i /\ m.state = "inflight" /\ m \notin sqs'

\* a query of the tenant that the search index answers
QueryAnswered(tenant_id) == get_logs("tok", tenant_id, NoFilter) /\ last'.status = 200

NextLive ==
    \/ \E tenant_id \in HeaderTenants, log \in ClientLogs :
          produce_log("tok", tenant_id, log)
    \/ \E text \in Texts : ForeignSend(text)
    \/ Receive
    \/ process_message
    \/ VisibilityTimeout
    \/ Crash
    \/ \E tenant_id \in Tenants : get_logs("tok", tenant_id, NoFilter)
    \/ Respond

\* the worker kept running: it polls again and again and works through
\* what it received, the queue delivers every message that stays visible
\* and delivers again what was not deleted, failures and crashes are
\* finitely many, and each tenant is queried again and again with the search
\* index answering
SpecLive ==
    /\ InitPipeline
    /\ [][NextLive]_vars
    /\ WF_vars(Respond)
    /\ \A i \in 1..MaxMsgs : SF_vars(ReceiveOf(i))
    /\ \A i \in 1..MaxMsgs : SF_vars(TimeoutOf(i))
    /\ SF_vars(process_message)
    /\ <>[][~Crash /\ ~ProcessFailed]_vars
    /\ \A tenant_id \in Tenants : SF_vars(QueryAnswered(tenant_id))

(* --------------------- ingestion with live subscribers --------------- *)
\* one token that may do everything for both tenants
InitFanout ==
    /\ Issue(<<{"A", "B"}, {"admin"}>>)
    /\ EmptySystem

NextFanout ==
    \/ \E w \in 1..MaxConns, tenant_id \in Tenants : websocket_endpoint(w, "tok", tenant_id)
    \/ \E w \in 1..MaxConns : client_disconnect(w)
    \/ \E tenant_id \in Tenants : produce_log("tok", tenant_id, PlainLog)
    \/ \E tenant_id \in Tenants, n \in 1..MaxBulk :
          produce_logs_bulk("tok", tenant_id, n, PlainLog)
    \/ Receive
    \/ process_message
    \/ \E tenant_id \in Tenants, raises \in SUBSET {l.id : l \in logs} :
          bulk_index_logs("tok", tenant_id, None, None, DefaultLimit, raises)
    \/ \E tenant_id \in Tenants : get_logs("tok", tenant_id, NoFilter)
    \/ \E tenant_id \in Tenants, log_id \in 1..MaxLogs : get_log("tok", tenant_id, log_id)
    \/ Respond

\* the serving process with its hub, the queue and the worker
SpecFanout == InitFanout /\ [][NextFanout]_vars

(* ------------------------- the worker's loop -------------------------- *)
NextWorker ==
    \/ \E tenant_id \in Tenants : produce_log("tok", tenant_id, PlainLog)
    \/ Receive
    \/ receive_raises
    \/ backoff_ends
    \/ process_message
    \/ VisibilityTimeout
    \/ Shutdown
    \/ run_exits
    \/ Respond

\* the worker is a process of its own: its sleep returns, it gets to work
\* on what it received and it gets to read the loop condition, whatever the
\* requests of the serving process do in between
SpecWorker ==
    /\ InitFanout
    /\ [][NextWorker]_vars
    /\ WF_vars(Respond)
    /\ SF_vars(process_message)
    /\ SF_vars(backoff_ends)
    /\ SF_vars(run_exits)

(* -------------------- reads, reindex and retention -------------------- *)
\* one token that may do everything for both tenants and lasts the run
InitStore ==
    /\ signed = [jti |-> "j1", tenant_ids |-> {"A", "B"}, roles |-> {"admin"},
                 exp |-> MaxTime]
    /\ jwt_tokens = {[jti |-> "j1", tenant_ids |-> {"A", "B"}, roles |-> {"admin"},
                      expires_at |-> MaxTime, revoked |-> FALSE]}
    /\ EmptySystem

NextStore ==
    \/ Tick
    \/ OpenSearchFlip
    \/ \E tenant_id \in Tenants : produce_log("tok", tenant_id, PlainLog)
    \/ Receive
    \/ process_message
    \/ \E tenant_id \in Tenants, raises \in SUBSET {l.id : l \in logs} :
          bulk_index_logs("tok", tenant_id, None, None, DefaultLimit, raises)
    \/ \E tenant_id \in Tenants, query_params \in QueryParams :
          get_logs("tok", tenant_id, query_params)
    \/ \E tenant_id \in Tenants, log_id \in 0..MaxLogs : get_log("tok", tenant_id, log_id)
    \/ \E tenant_id \in Tenants, days \in 1..MaxDays :
          delete_old_logs("tok", tenant_id, days)
    \/ Respond

\* what the pipeline stored, read, reindexed and deleted over the days, the
\* search index going away and coming back
SpecStore == InitStore /\ [][NextStore]_vars

(* ------------------------- reindex of a full store -------------------- *)
\* the record the worker wrote from message i, sent on day 0: the first
\* message was of tenant B, the others of tenant A
Stored(i) ==
    Document(i, [id |-> i, tenant_id |-> IF i = 1 THEN "B" ELSE "A",
                 timestamp |-> isoformat(Date(0)), message |-> "m1"])

\* the pipeline has drained MaxStored messages; nothing is indexed yet
InitReindex ==
    /\ signed = [jti |-> "j1", tenant_ids |-> {"A", "B"}, roles |-> {"admin"},
                 exp |-> MaxTime]
    /\ jwt_tokens = {[jti |-> "j1", tenant_ids |-> {"A", "B"}, roles |-> {"admin"},
                      expires_at |-> MaxTime, revoked |-> FALSE]}
    /\ now = 0
    /\ os_up = TRUE
    /\ sqs = {}
    /\ next_msg = MaxStored + 1
    /\ batch = <<>>
    /\ running = TRUE
    /\ worker = "polling"
    /\ logs = {Stored(i) : i \in 1..MaxStored}
    /\ next_id = MaxStored + 1
    /\ os_index = {}
    /\ audit_trail = {}
    /\ tenant_connections = <<>>
    /\ connection_tenants = <<>>
    /\ connection_counter = 0
    /\ sockets = [w \in 1..MaxConns |-> [state |-> "new"]]
    /\ inbox = [w \in 1..MaxConns |-> <<>>]
    /\ sending = NoPass
    /\ last = NoRequest

\* index_log raises for the first k records (the cluster recovers during
\* the loop) or for one record (a document the index refuses)
RaiseSets == {1..k : k \in 0..MaxStored} \cup {{k} : k \in 1..MaxStored}

NextReindex ==
    \/ \E tenant_id \in Tenants, limit \in {3, DefaultLimit}, raises \in RaiseSets :
          bulk_index_logs("tok", tenant_id, None, None, limit, raises)
    \/ Respond

\* reindex requests over a store of MaxStored records
SpecReindex == InitReindex /\ [][NextReindex]_vars

(* --------------------------- the live stream -------------------------- *)
NextStream ==
    \/ Tick
    \/ RevokeToken
    \/ UpdateStoredClaims
    \/ ShortenExpiry
    \/ PurgeToken
    \/ \E w \in 1..MaxConns, cred \in Credentials, tenant_id \in HeaderTenants :
          websocket_endpoint(w, cred, tenant_id)
    \/ Respond
    \/ \E w \in 1..MaxConns : client_disconnect(w)
    \/ \E tenant_id \in Tenants :
          broadcast_log(tenant_id, View(1, tenant_id, IsoStr(0).v, "m1"))

\* the stream endpoint and the fan-out hub, with one issued token
SpecStream == InitStream /\ [][NextStream]_vars


\* upgrades alone: any credential, any tenant header, the clock running
NextAdmission ==
    \/ Tick
    \/ \E w \in 1..MaxConns, cred \in Credentials, tenant_id \in HeaderTenants :
          websocket_endpoint(w, cred, tenant_id)
    \/ Respond
    \/ \E w \in 1..MaxConns : client_disconnect(w)

SpecAdmission == InitStream /\ [][NextAdmission]_vars

\* the hub under concurrent tasks: subscribers come and go while a pass of
\* broadcast_to_tenant is suspended in a send
NextHub ==
    \/ \E w \in 1..MaxConns, tenant_id \in Tenants : websocket_endpoint(w, "tok", tenant_id)
    \/ \E w \in 1..MaxConns : client_disconnect(w)
    \/ \E tenant_id \in Tenants :
          broadcast_begin(tenant_id, View(1, tenant_id, IsoStr(0).v, "m1"))
    \/ send_text_returns
    \/ Respond

SpecHub == InitFanout /\ [][NextHub]_vars

(* ------------------------ bulk requests alone ------------------------- *)
\* arrays of POST /logs/bulk: up to MaxBatch logs with any of the texts
BulkBodies ==
    UNION {[1..n -> {log \in ClientLogs : log.tenant_id = ""}] : n \in 1..MaxBatch}

NextBulk ==
    \/ \E tenant_id \in Tenants, body \in BulkBodies :
          produce_logs_bulk_body(tenant_id, body)
    \/ Respond

SpecBulk == InitFanout /\ [][NextBulk]_vars

(* ------------------------- index_log, called alone -------------------- *)
\* logs handed to index_log: records of the store, and events that carry
\* no id of their own
IndexedLogs ==
    [id : (1..MaxLogs) \cup {None}, tenant_id : Tenants, timestamp : {Date(0)},
     message : Texts]

\* OpenSearchService.index_log(log) on a cluster that answers
index_log_call(log) ==
    /\ last = NoRequest
    /\ os_index' = index_log(os_index, log)
    /\ last' = [op |-> "index_log", log |-> log]
    /\ UNCHANGED <<now, tokenVars, os_up, queueVars, logs, next_id, audit_trail, hubVars>>

NextIndex ==
    \/ \E log \in IndexedLogs : index_log_call(log)
    \/ Respond

SpecIndex == InitFanout /\ [][NextIndex]_vars

(* ------------------- the validator and the gate, called alone --------- *)
\* one token, issued with any tenant set and any role strings
InitGate ==
    /\ \E tenant_ids \in SUBSET Tenants, roles \in SUBSET RoleNames :
          Issue(<<tenant_ids, roles>>)
    /\ EmptySystem

\* validate_token(token)
ValidateToken(cred) ==
    /\ last = NoRequest
    /\ LET res == validate_token(cred)
       IN last' = WithoutBody("validate_token", cred, "", res.status, res.detail, NoClaims)
    /\ UNCHANGED <<now, tokenVars, os_up, queueVars, storeVars, hubVars>>

\* get_current_token(credentials)
GetCurrentToken(cred) ==
    /\ last = NoRequest
    /\ LET res == get_current_token(cred)
       IN last' = WithoutBody("get_current_token", cred, "", res.status, res.detail,
                            res.claims)
    /\ UNCHANGED <<now, tokenVars, os_up, queueVars, storeVars, hubVars>>

\* get_tenant_id(x_tenant_id)
GetTenantId(x_tenant_id) ==
    /\ last = NoRequest
    /\ LET res == get_tenant_id(x_tenant_id)
       IN last' = WithoutBody("get_tenant_id", "", x_tenant_id, res.status, res.detail,
                            NoClaims)
    /\ UNCHANGED <<now, tokenVars, os_up, queueVars, storeVars, hubVars>>

\* check_tenant_access(tenant_id, token_data), token_data being what
\* get_current_token returned for the issued token
CheckTenantAccess(tenant_id) ==
    /\ last = NoRequest
    /\ get_current_token("tok").ok
    /\ LET token_data == get_current_token("tok").claims
           res == check_tenant_access(tenant_id, token_data)
       IN last' = WithoutBody("check_tenant_access", "tok", tenant_id, res.status,
                            res.detail, token_data)
    /\ UNCHANGED <<now, tokenVars, os_up, queueVars, storeVars, hubVars>>

\* check_role_permissions(required_roles)(token_data)
CheckRolePermissions(required_roles) ==
    /\ last = NoRequest
    /\ get_current_token("tok").ok
    /\ LET token_data == get_current_token("tok").claims
           res == check_role_permissions(required_roles, token_data.roles)
       IN last' = WithoutBody("check_role_permissions", "tok", "", res.status,
                              res.detail, token_data)
                      @@ [required_roles |-> required_roles]
    /\ UNCHANGED <<now, tokenVars, os_up, queueVars, storeVars, hubVars>>

NextGate ==
    \/ Tick
    \/ RevokeToken
    \/ ShortenExpiry
    \/ PurgeToken
    \/ \E cred \in Credentials : ValidateToken(cred)
    \/ \E cred \in Credentials : GetCurrentToken(cred)
    \/ \E x_tenant_id \in HeaderTenants : GetTenantId(x_tenant_id)
    \/ \E tenant_id \in Tenants : CheckTenantAccess(tenant_id)
    \/ \E required_roles \in SUBSET Roles : CheckRolePermissions(required_roles)
    \/ Respond

SpecGate == InitGate /\ [][NextGate]_vars


(* ------------------------------ the claims ---------------------------- *)
\* the record the store holds for the issued token, as a set
StoredToken == find_one(signed.jti)

RestOps == {"get_logs", "get_log", "produce_log", "produce_logs_bulk",
            "bulk_index_logs", "delete_old_logs"}

\* the roles an operation declares
RequiredRoles(op) ==
    CASE op \in {"get_logs", "get_log"} -> {"reader"}
      [] op \in {"produce_log", "produce_logs_bulk", "delete_old_logs"} -> {"writer"}
      [] OTHER -> {}

\* the request of `l` came with the issued token, its signature and signed
\* expiry good, a tenant header and the search index up, so that only the token store and the gate decide on it
Plain(l) == l.cred = "tok" /\ ~DecodeFails("tok") /\ l.tenant # "" /\ os_up

\* C1: with a token whose stored tenant set holds T2 and not T1, no
\* get-by-id, query or stream response carries an event of tenant T1.
C1_TenantIsolation ==
    \A T1 \in Tenants, T2 \in Tenants, r \in StoredToken :
        (/\ T1 # T2
         /\ T2 \in r.tenant_ids
         /\ T1 \notin r.tenant_ids
         /\ last.op \in {"get_logs", "get_log", "stream"}
         /\ last.cred = "tok")
        => \A e \in last.data : e.tenant_id # T1

\* C2: a produce, bulk-produce, retention-delete or bulk-reindex request
\* for a tenant outside the token's tenant set is turned away with the
\* tenant-forbidden error and enqueues, deletes and indexes nothing.
C2_TenantForbidden ==
    [][ (/\ last'.op \in {"produce_log", "produce_logs_bulk", "delete_old_logs",
                          "bulk_index_logs"}
         /\ Plain(last')
         /\ \E r \in StoredToken :
               /\ last'.tenant \notin r.tenant_ids
               /\ "admin" \in r.roles)
        => (/\ last'.status = 403
            /\ last'.detail = "Token does not have access to tenant"
            /\ UNCHANGED <<sqs, logs, os_index>>) ]_vars

\* C3: validate on a structurally valid token whose record is revoked
\* fails with "Token has been revoked".
C3_RevokedReason ==
    (/\ last.op = "validate_token"
     /\ last.cred = "tok"
     /\ ~DecodeFails("tok")
     /\ \E r \in StoredToken : r.revoked)
    => (last.status = 401 /\ last.detail = "Token has been revoked")

\* C4: a request made with a token whose record is revoked, or whose stored
\* expiry has passed, is turned away and runs no operation.
C4_RevokedRejected ==
    (/\ last.op \in RestOps \cup {"stream"}
     /\ last.cred = "tok"
     /\ \E r \in StoredToken : r.revoked \/ r.expires_at < now)
    => (~last.ran /\ last.status \notin {101, 200, 202})

\* C5: validate on a structurally valid token succeeds exactly when its
\* record exists, is not revoked and now < expires_at; once the stored
\* expiry is reached it fails with "Token has expired".
C5_UsableIff ==
    (/\ last.op = "validate_token"
     /\ last.cred \in {"tok", "foreign"}
     /\ ~DecodeFails(last.cred))
    => LET rec == find_one(Payload(last.cred).jti)
       IN /\ (last.status = 200) <=> (\E r \in rec : ~r.revoked /\ now < r.expires_at)
          /\ (\E r \in rec : ~r.revoked /\ now >= r.expires_at)
                => last.detail = "Token has expired"

\* C6: the tenant set and the role set an accepted live-stream upgrade was
\* checked against are those of the token's record in the store.
C6_StoredClaimsUsed ==
    (/\ last.op = "stream"
     /\ last.cred = "tok"
     /\ last.status = 101)
    => \E r \in StoredToken :
          last.claims = [tenant_ids |-> r.tenant_ids, roles |-> r.roles]

\* C7: the role check passes if "admin" is among the token's roles; else
\* it passes exactly when the token's roles meet the required roles, and
\* fails with 403 "Insufficient permissions" otherwise.
C7_RoleCheck ==
    last.op = "check_role_permissions" =>
        LET R == last.claims.roles
            Q == last.required_roles
            pass == "admin" \in R \/ R \cap Q # {}
        IN /\ (last.status = 200) <=> pass
           /\ ~pass => (last.status = 403 /\ last.detail = "Insufficient permissions")

\* the admin override decided a role check: admin was not a required role
C7_Witness ==
    /\ last.op = "check_role_permissions"
    /\ "admin" \in last.claims.roles
    /\ last.claims.roles \cap last.required_roles = {}
    /\ last.status = 200

\* C8: a token whose roles are exactly {writer} is turned away with the
\* role-forbidden error on query and get-by-id and gets no log data.
C8_WriterOnlyCannotRead ==
    (/\ last.op \in {"get_logs", "get_log"}
     /\ Plain(last)
     /\ \E r \in StoredToken : r.roles = {"writer"})
    => (/\ last.status = 403
        /\ last.detail = "Insufficient permissions"
        /\ last.data = {})

\* C9: a token whose roles are exactly {reader} is turned away with the
\* role-forbidden error on produce, bulk produce and retention delete, and
\* the request enqueues no message and deletes no event.
C9_ReaderOnlyCannotWrite ==
    [][ (/\ last'.op \in {"produce_log", "produce_logs_bulk", "delete_old_logs"}
         /\ last'.cred = "tok"
         /\ ~DecodeFails("tok")
         /\ last'.tenant # ""
         /\ \E r \in StoredToken : r.roles = {"reader"})
        => (/\ last'.status = 403
            /\ last'.detail = "Insufficient permissions"
            /\ UNCHANGED <<sqs, logs, os_index>>) ]_vars

\* the request of `l` fails the token check, the tenant check or the role
\* check of its operation
FailsGate(l) ==
    \/ l.cred # "tok"
    \/ DecodeFails("tok")
    \/ StoredToken = {}
    \/ \E r \in StoredToken :
          \/ r.revoked
          \/ r.expires_at <= now
          \/ l.tenant \notin r.tenant_ids
          \/ ("admin" \notin r.roles /\ r.roles \cap RequiredRoles(l.op) = {})

\* C10: a request that fails the token, tenant or role check is turned
\* away before the body of its endpoint runs, and leaves the queue, the
\* store, the index, the audit trail and the hub as they were.
C10_RejectedBeforeLogic ==
    [][ (last'.op \in RestOps /\ FailsGate(last'))
        => (/\ ~last'.ran
            /\ UNCHANGED <<sqs, next_msg, logs, next_id, os_index, audit_trail, hubVars>>)
      ]_vars


\* the records the worker wrote from message i
WrittenFrom(S, i) == {l \in S : l.src = i}

\* C11: the tenant_id of every message produce or bulk produce enqueues is
\* the tenant of the request, whatever the body says; the tenant_id of the
\* record the worker writes is that of the message; no step changes the
\* tenant_id of a record.
C11_TenantSetByServer ==
    [][ /\ last'.op \in {"produce_log", "produce_logs_bulk"}
           => \A m \in sqs' \ sqs : m.tenant_id = last'.tenant
        /\ last'.op = "process_message"
           => \A l \in logs' \ logs : l.tenant_id = last'.message.tenant_id
        /\ \A l \in logs, k \in logs' : k.id = l.id => k.tenant_id = l.tenant_id ]_vars

\* a produce request whose body named another tenant was enqueued under the
\* tenant of the request
C11_Witness ==
    /\ last.op = "produce_log"
    /\ last.status = 202
    /\ last.log.tenant_id \notin {"", last.tenant}
    /\ \E m \in sqs : m.tenant_id = last.tenant /\ m.message = last.log.message

\* C12: a message is deleted from the queue only after its insert went
\* through: every deleted message has a record written from it.
C12_AckOnlyAfterInsert ==
    \A i \in Acked : WrittenFrom(logs, i) # {}

\* a message was deleted, with its record in the store, and the worker shut
\* down
C12_Witness ==
    /\ ~running
    /\ \E i \in Acked : WrittenFrom(logs, i) # {}

\* C13: a message the queue accepted with a tenant_id comes to have a record
\* in the store and to be deleted from the queue.
C13_NeverLost ==
    \A i \in 1..MaxMsgs :
        (\E m \in sqs : m.id = i /\ m.tenant_id # "")
            ~> (i \in Acked /\ WrittenFrom(logs, i) # {})

\* a message was deleted at its second processing, the first having
\* inserted without deleting
C13_Witness ==
    \E i \in Acked : Cardinality(WrittenFrom(logs, i)) = 2

\* C14: each processing of a message that inserts adds one record to those
\* written from it, and every record written from it has the tenant_id and
\* the text of the message.
C14_DuplicateKeepsFields ==
    [][ (last'.op = "process_message" /\ last'.inserted)
        => LET m == last'.message
           IN /\ Cardinality(WrittenFrom(logs', m.id))
                    = Cardinality(WrittenFrom(logs, m.id)) + 1
              /\ \A l \in WrittenFrom(logs', m.id) :
                    /\ l.tenant_id = m.tenant_id /\ m.tenant_id # ""
                    /\ l.message = m.message
                    /\ l.timestamp = fromisoformat(m.timestamp) ]_vars

\* a message was processed twice: two records, both with its tenant_id
C14_Witness ==
    /\ last.op = "process_message"
    /\ last.inserted
    /\ Cardinality(WrittenFrom(logs, last.message.id)) = 2
    /\ \A l \in WrittenFrom(logs, last.message.id) :
          l.tenant_id = last.message.tenant_id /\ l.message = last.message.message

\* C15: processing a message without tenant_id inserts nothing, deletes
\* nothing, returns False and leaves the message in the queue.
C15_MissingTenantFailsClosed ==
    [][ (last'.op = "process_message" /\ last'.message.tenant_id = "")
        => /\ logs' = logs
           /\ sqs' = sqs
           /\ ~last'.ok
           /\ \E m \in sqs' : m.id = last'.message.id /\ m.tenant_id = "" ]_vars

\* a message without tenant_id was processed and is still in the queue
C15_Witness ==
    /\ last.op = "process_message"
    /\ last.message.tenant_id = ""
    /\ ~last.ok
    /\ last.message \in sqs
    /\ logs = {}

\* C16: a message without tenant_id, once the worker handled it, is never
\* received again.
C16_InvalidNotRedelivered ==
    \A i \in 1..MaxMsgs :
        []( (/\ last.op = "process_message"
             /\ last.message.id = i
             /\ last.message.tenant_id = "")
            => [](\A k \in 1..Len(batch) : batch[k].id # i) )

\* C20: an event that was produced and drained is eventually returned by a
\* query for its tenant, with the text that was submitted.
C20_RoundTrip ==
    \A i \in 1..MaxMsgs :
        (i \in Acked)
            ~> (/\ last.op = "get_logs"
                /\ \E l \in WrittenFrom(logs, i), e \in last.data :
                      /\ e.id = l.id
                      /\ e.tenant_id = l.tenant_id
                      /\ e.message = l.message)


\* the sockets the hub has registered for a tenant
Subscribers(tenant_id) ==
    IF tenant_id \in DOMAIN tenant_connections
    THEN tenant_connections[tenant_id] ELSE {}

\* what a reader or a subscriber is shown of a stored record
Shown(l) == View(l.id, l.tenant_id, l.timestamp.v, l.message)

\* C17: when the worker inserts an event of tenant T, every subscriber open
\* on T is sent that event once, and no other subscriber is sent anything.
C17_FanOut ==
    [][ (last'.op = "process_message" /\ last'.inserted)
        => \A l \in logs' \ logs, w \in 1..MaxConns :
              inbox'[w] = IF w \in Subscribers(l.tenant_id)
                          THEN Append(inbox[w], Shown(l))
                          ELSE inbox[w] ]_vars

C19_ProduceBroadcasts ==
    [][ (last'.op \in {"produce_log", "produce_logs_bulk"} /\ last'.status = 202)
        => \A w \in Subscribers(last'.tenant) :
              Len(inbox'[w]) = Len(inbox[w]) + Cardinality(sqs' \ sqs) ]_vars


\* what a query finds in the durable store under a tenant and its filters
StoreFind(tenant_id, query_params) ==
    {e \in {Shown(l) : l \in logs} :
        e.tenant_id = tenant_id /\ FilterClauses(e, query_params)}

\* C21: a query whose search raised is answered from the durable store,
\* with the events of the request's tenant that pass its filters; the error
\* of the index is not the response.
C21_QueryFallsBack ==
    (last.op = "get_logs" /\ last.ran /\ last.index_error)
    => (/\ last.status = 200
        /\ last.data = StoreFind(last.tenant, last.query_params))

\* C22: with the search index down, get-by-id of a well-formed id returns
\* the event of that id and the request's tenant from the durable store when
\* there is one, and not-found when there is none.
C22_GetByIdWithoutIndex ==
    (/\ last.op = "get_log"
     /\ last.cred = "tok"
     /\ ~os_up
     /\ ObjectIdIsValid(last.log_id))
    => LET stored == {Shown(l) : l \in {x \in logs : x.id = last.log_id
                                                  /\ x.tenant_id = last.tenant}}
       IN IF stored # {}
          THEN last.status = 200 /\ last.data = stored
          ELSE last.status = 404

\* C23: a get-by-id under tenant T answers with an event of T or with
\* not-found, and for an id that exists only under another tenant the
\* answer is the not-found of an id that exists nowhere.
C23_GetByIdIsolation ==
    (/\ last.op = "get_log"
     /\ last.cred = "tok"
     /\ ObjectIdIsValid(last.log_id))
    => /\ \/ last.status = 200 /\ last.data # {}
             /\ \A e \in last.data : e.tenant_id = last.tenant
          \/ last.status = 404 /\ last.detail = "Log not found" /\ last.data = {}
       /\ (/\ \A l \in logs : l.id = last.log_id => l.tenant_id # last.tenant
           /\ \A d \in os_index : d.id = last.log_id => d.tenant_id # last.tenant)
          => (last.status = 404 /\ last.detail = "Log not found" /\ last.data = {})

\* C24: every event of a query result has the tenant of the request, and
\* the total is the number of documents of that tenant that pass the
\* filters, whatever the filters are.
C24_QueryTenantScoped ==
    (last.op = "get_logs" /\ last.status = 200)
    => /\ \A e \in last.data : e.tenant_id = last.tenant
       /\ last.total = Cardinality({d \in os_index :
                            /\ d.tenant_id = last.tenant
                            /\ FilterClauses(d, last.query_params)})

\* a filtered query was answered with nothing and total 0 while the index
\* held a document of another tenant that passes the filters
C24_Witness ==
    /\ last.op = "get_logs"
    /\ last.status = 200
    /\ last.query_params # NoFilter
    /\ last.data = {}
    /\ last.total = 0
    /\ \E d \in os_index :
          d.tenant_id # last.tenant /\ FilterClauses(d, last.query_params)

\* C25: a retention delete for tenant T with N days leaves in the store and
\* in the index every event of another tenant and every event of T whose
\* timestamp is at or after now minus N days.
C25_RetentionFrame ==
    [][ last'.op = "delete_old_logs"
        => IF ~last'.ran THEN UNCHANGED <<logs, os_index>>
           ELSE /\ \A l \in logs :
                      (l.tenant_id # last'.tenant \/ l.timestamp.v >= now - last'.days)
                         => l \in logs'
                /\ \A d \in os_index :
                      (d.tenant_id # last'.tenant \/ d.timestamp >= now - last'.days)
                         => d \in os_index' ]_vars

\* a retention delete went through on both sides and the index still holds
\* a document of the tenant dated exactly at the cutoff
C25_Witness ==
    /\ last.op = "delete_old_logs"
    /\ last.status = 200
    /\ ~last.opensearch_error
    /\ \E d \in os_index : d.tenant_id = last.tenant /\ d.timestamp = now - last.days
    /\ \E l \in logs : l.tenant_id = last.tenant /\ l.timestamp.v = now - last.days

\* C26: after a retention delete for tenant T with N days that succeeded, the
\* store holds no event of T that the worker wrote with a timestamp before
\* now minus N days.
C26_RetentionDeletes ==
    (last.op = "delete_old_logs" /\ last.status = 200)
    => \A l \in logs :
          ~(l.tenant_id = last.tenant /\ l.timestamp.v < now - last.days)

\* C27: in a retention delete each side is attempted whatever the other
\* did: the request is answered 200, a failed store delete still has the
\* index delete made, a failed index delete still has the store delete
\* made, and the failure is in the response.
C27_RetentionIndependent ==
    [][ (last'.op = "delete_old_logs" /\ last'.ran)
        => LET cutoff_date == Date(now - last'.days)
           IN /\ last'.status = 200
              /\ last'.mongo_error
                    => \/ last'.opensearch_error
                       \/ os_index' = os_delete_old_logs(os_index, last'.tenant,
                                                         cutoff_date)
              /\ last'.opensearch_error
                    => \/ last'.mongo_error
                       \/ logs' = {l \in logs :
                                      ~DeleteQuery(l, last'.tenant, cutoff_date)} ]_vars


\* the k-th smallest of a set of ids
RECURSIVE Ascending(_)
Ascending(ids) ==
    IF ids = {} THEN <<>>
    ELSE LET least == CHOOSE i \in ids : \A j \in ids : i <= j
         IN <<least>> \o Ascending(ids \ {least})

\* C28: a reindex goes through its whole page: every event of the page whose
\* index_log did not raise is in the index afterwards, failed ones before it
\* or not; indexed + errors = total; only events of the request's tenant are
\* added to the index; error_details lists the first min(10, errors)
\* failures, in the order of the page.
C28_ReindexReport ==
    [][ (last'.op = "bulk_index_logs" /\ last'.ran)
        => LET page == Page({l \in logs : l.tenant_id = last'.tenant}, last'.limit)
               failed == Ascending(last'.raised_for)
               shown == IF Len(failed) < 10 THEN Len(failed) ELSE 10
           IN /\ last'.total = Cardinality(page)
              /\ last'.indexed + last'.errors = last'.total
              /\ last'.errors = Len(failed)
              /\ last'.raised_for \subseteq {l.id : l \in page}
              /\ \A l \in page :
                    l.id \notin last'.raised_for => \E d \in os_index' : d.id = l.id
              /\ \A d \in os_index' \ os_index : d.tenant_id = last'.tenant
              /\ last'.error_details = SubSeq(failed, 1, shown) ]_vars

\* a reindex met eleven failures, listed ten of them and went on to index
\* the event that followed
C28_Witness ==
    /\ last.op = "bulk_index_logs"
    /\ last.errors = 11
    /\ Len(last.error_details) = 10
    /\ last.indexed = 1
    /\ \E d \in os_index : d.tenant_id = last.tenant /\ \A i \in last.raised_for : i < d.id


\* C29: in a pass of broadcast over the sockets of a tenant, every socket
\* whose send did not fail is sent the event, whatever happened on the
\* others and whatever the failure was, and every socket whose send failed
\* is out of the tenant's set when the pass is over.
C29_BroadcastBestEffort ==
    [][ last'.op = "broadcast_log"
        => \A w \in Subscribers(last'.tenant) :
              IF last'.outcome[w] = "sent"
              THEN inbox'[w] = Append(inbox[w], last'.log_data)
              ELSE /\ last'.tenant \in DOMAIN tenant_connections'
                   /\ w \notin tenant_connections'[last'.tenant] ]_vars


\* the request carries a tenant header and a credential that decodes, whose
\* tenant set holds the tenant and whose roles hold reader or admin
Admissible(cred, tenant_id) ==
    /\ tenant_id # ""
    /\ cred # "none"
    /\ ~DecodeFails(cred)
    /\ tenant_id \in Payload(cred).tenant_ids
    /\ \E role \in Payload(cred).roles : Lower(role) \in {"admin", "reader"}

\* C30: an upgrade is accepted only when the credential, the tenant and the
\* role check have passed; one that fails any of them is closed with 1008
\* without being accepted, and the hub registers nothing for it.
C30_AcceptAfterChecks ==
    [][ last'.op = "stream"
        => /\ last'.ran => Admissible(last'.cred, last'.tenant)
           /\ ~Admissible(last'.cred, last'.tenant)
                 => /\ last'.status = 1008
                    /\ ~last'.ran
                    /\ UNCHANGED <<tenant_connections, connection_tenants,
                                   connection_counter>>
                    /\ \A w \in 1..MaxConns :
                          sockets'[w].state = "open" => sockets[w].state = "open" ]_vars

\* an upgrade for a tenant of the token, whose only role is writer, was
\* closed without being accepted and the hub holds no subscription
C30_Witness ==
    /\ last.op = "stream"
    /\ last.cred = "tok"
    /\ ~DecodeFails("tok")
    /\ last.tenant \in signed.tenant_ids
    /\ signed.roles = {"writer"}
    /\ last.status = 1008
    /\ ~last.ran
    /\ tenant_connections = <<>>
    /\ connection_tenants = <<>>
    /\ \A w \in 1..MaxConns : sockets[w].state # "open"


\* C31: disconnecting a live subscription takes its socket out of its
\* tenant's set and its id out of the registry in the same step; calling
\* disconnect for it again changes neither map; a pass of
\* broadcast_to_tenant that begins later copies only sockets that are still
\* subscribed, and sends to no socket outside its copy.
C31_DisconnectRemoves ==
    [][ /\ \A w \in 1..MaxConns :
              (sockets[w].state = "open" /\ sockets'[w].state = "closed")
              => LET connection_id == sockets[w].connection_id
                 IN /\ \A t \in DOMAIN tenant_connections' :
                          w \notin tenant_connections'[t]
                    /\ connection_id \notin DOMAIN connection_tenants'
                    /\ disconnect(tenant_connections', connection_tenants', w,
                                  connection_id)
                          = [tc |-> tenant_connections', ct |-> connection_tenants']
        /\ (sending = NoPass /\ sending' # NoPass)
              => \A w \in sending'.connections : sockets[w].state = "open"
        /\ \A w \in 1..MaxConns :
              inbox'[w] # inbox[w] => (sending # NoPass /\ w \in sending.connections) ]_vars

\* a socket that received an earlier broadcast of a tenant was disconnected,
\* and a later pass for that tenant is under way whose copy leaves it out
C31_Witness ==
    /\ sending # NoPass
    /\ \E w \in 1..MaxConns :
          /\ sockets[w].state = "closed"
          /\ inbox[w] # <<>>
          /\ inbox[w][1].tenant_id = sending.tenant
          /\ w \notin sending.connections


\* C32: produce_log answers "queued" only when the send put the event on
\* the queue, and then with status 202 and the identifier of that message;
\* when the send fails nothing is queued, the producer gets the error and
\* no identifier.
C32_QueuedOnlyIfSent ==
    [][ (last'.op = "produce_log" /\ last'.ran)
        => /\ last'.detail = "queued"
                 => /\ last'.status = 202
                    /\ Len(last'.message_ids) = 1
                    /\ \E m \in sqs' \ sqs :
                          /\ m.id = last'.message_ids[1]
                          /\ m.tenant_id = last'.tenant
                          /\ m.message = last'.log.message
           /\ sqs' = sqs
                 => /\ last'.status = 500
                    /\ last'.detail # "queued"
                    /\ last'.message_ids = <<>> ]_vars

\* a produce request whose send failed was answered with the error while
\* the queue stayed empty
C32_Witness ==
    /\ last.op = "produce_log"
    /\ last.ran
    /\ last.status = 500
    /\ last.detail = "send failed"
    /\ sqs = {}


\* C39: when the send of the k-th log of a bulk request fails, the first
\* k-1 logs are on the queue, in input order under consecutive identifiers,
\* nothing that was queued before is lost, no later log is queued, and the
\* caller gets the error with no identifier; when every send succeeds the
\* answer lists one identifier per log in input order and count is their
\* number.
C39_BulkPartial ==
    [][ last'.op = "produce_logs_bulk_body"
        => LET body == last'.body
               n == Len(body)
               sent == last'.sent
               new == sqs' \ sqs
               carries(id, i) ==
                   \E m \in new : /\ m.id = id
                                  /\ m.tenant_id = last'.tenant
                                  /\ m.message = body[i].message
           IN /\ sqs \subseteq sqs'
              /\ Cardinality(new) = sent
              /\ \A i \in 1..sent : carries(next_msg + i - 1, i)
              /\ sent < n => /\ last'.status = 500
                             /\ last'.detail # "queued"
                             /\ last'.message_ids = <<>>
              /\ sent = n => /\ last'.status = 202
                             /\ last'.detail = "queued"
                             /\ Len(last'.message_ids) = n
                             /\ last'.count = n
                             /\ \A i \in 1..n : carries(last'.message_ids[i], i) ]_vars

\* a bulk request of three logs failed at its third send: its first two
\* logs are on the queue and the caller got the error without identifiers
C39_Witness ==
    /\ last.op = "produce_logs_bulk_body"
    /\ Len(last.body) = 3
    /\ last.sent = 2
    /\ last.status = 500
    /\ last.message_ids = <<>>
    /\ Cardinality(sqs) = 2
    /\ last.body[1].message # last.body[2].message


\* C33: no exception ends the loop of run: after a receive that raised the
\* worker sleeps and polls again, and a message whose processing failed
\* leaves the worker in its loop; the worker leaves the loop only with the
\* flag cleared and no message of its batch left; and once the flag is
\* cleared the worker eventually has left the loop and closed its store
\* connection.
C33_LoopSurvives ==
    /\ [][ /\ (worker # "exited" /\ worker' = "exited") => (~running /\ batch = <<>>)
           /\ running => worker' # "exited"
           /\ worker = "backoff" => worker' \in {"backoff", "polling"}
           /\ last'.op = "process_message" => (worker' = worker /\ worker # "exited") ]_vars
    /\ (~running) ~> (worker = "exited" /\ batch = <<>>)

\* a receive raised after the worker had written a record; the worker
\* sleeps, and the flag was cleared meanwhile
C33_Witness ==
    /\ worker = "backoff"
    /\ logs # {}
    /\ ~running


\* C34: the timestamp of a stored record is the time at which the worker
\* wrote it, so that records carry timestamps in the order of their
\* writes, whatever the order in which their events were enqueued.
C34_StampedAtWrite ==
    [][ (last'.op = "process_message" /\ last'.inserted)
        => /\ \A l \in logs' \ logs : l.timestamp = Date(now)
           /\ \A l1, l2 \in logs' : l1.id < l2.id => l1.timestamp.v <= l2.timestamp.v ]_vars


\* C35: a pass of broadcast_to_tenant during whose sends subscribers
\* connected and disconnected, and whose sends failed, if at all, with the
\* error the loop catches, returns without raising, and leaves the hub as
\* the serial order does that runs the pass after those connects and
\* disconnects: no socket the pass found disconnected is in a tenant's set.
C35_InterleavedPass ==
    (last.op = "broadcast_to_tenant" /\ last.error # "Exception")
    => /\ ~last.raised
       /\ \A t \in DOMAIN tenant_connections :
             tenant_connections[t] \cap last.disconnected = {}


\* C36: the hub never maps a tenant to an empty set of sockets: the entry of
\* a tenant goes with its last socket, whether disconnect or the cleanup of
\* a broadcast removed it.
C36_NoEmptyTenantSet ==
    \A t \in DOMAIN tenant_connections : tenant_connections[t] # {}

\* C37: the two maps of the hub agree. Every registered subscription id
\* belongs to one open socket, which is in the set of the id's tenant and
\* in no other set; every socket in a tenant's set has a registered id of
\* that tenant; the tenant of a registered id never changes; and an id that
\* is registered anew carries a counter value no earlier id carried.
C37_MapsAgree ==
    /\ [](/\ \A id \in DOMAIN connection_tenants :
                LET owners == {w \in 1..MaxConns :
                                  /\ sockets[w].state = "open"
                                  /\ sockets[w].connection_id = id}
                    t == connection_tenants[id]
                IN /\ Cardinality(owners) = 1
                   /\ t \in DOMAIN tenant_connections
                   /\ owners \subseteq tenant_connections[t]
                   /\ \A u \in DOMAIN tenant_connections \ {t} :
                         owners \cap tenant_connections[u] = {}
          /\ \A t \in DOMAIN tenant_connections :
                \A w \in tenant_connections[t] :
                   /\ sockets[w].state = "open"
                   /\ sockets[w].connection_id \in DOMAIN connection_tenants
                   /\ connection_tenants[sockets[w].connection_id] = t)
    /\ [][ /\ \A id \in DOMAIN connection_tenants \cap DOMAIN connection_tenants' :
                connection_tenants'[id] = connection_tenants[id]
           /\ \A id \in DOMAIN connection_tenants' \ DOMAIN connection_tenants :
                /\ id[2] = connection_counter
                /\ connection_counter' > connection_counter ]_vars


\* C38: index_log is an upsert by event id. Indexing an event that has an
\* id leaves exactly one document under that id, holding the event, and
\* touches no document of another id; indexing an event that has no id
\* stores it under an id of the index's making and overwrites no document
\* of a different event.
C38_IndexUpsert ==
    [][ last'.op = "index_log"
        => LET log == last'.log
           IN IF log.id # None
              THEN /\ {d \in os_index' : d.id # log.id} = {d \in os_index : d.id # log.id}
                   /\ Cardinality({d \in os_index' : d.id = log.id}) = 1
                   /\ \E d \in os_index' : /\ d.id = log.id
                                           /\ d.tenant_id = log.tenant_id
                                           /\ d.message = log.message
              ELSE /\ \A d \in os_index :
                         (d.tenant_id # log.tenant_id \/ d.message # log.message)
                         => d \in os_index'
                   /\ \E d \in os_index' : /\ d.tenant_id = log.tenant_id
                                           /\ d.message = log.message ]_vars


\* C40: every query or get-by-id request whose handler ran is followed,
\* sooner or later, by a record of it in the audit trail that names its
\* tenant and its action.
C40_ReadIsAudited ==
    \A tenant_id \in Tenants, action \in {"get_logs", "get_log"} :
        (last.op = action /\ last.ran /\ last.tenant = tenant_id)
        ~> (\E a \in audit_trail : a.tenant_id = tenant_id /\ a.action = action)

====
